---- MODULE Spec2Model ----
(***************************************************************************)
(* num_collect_maze: a turn-limited grid-collection game (MazeState) and   *)
(* the policies that choose the agent's next move: greedy_action,          *)
(* beam_search_action, beam_search_action_with_time_threshold,             *)
(* chokudai_search_action and chokudai_search_action_with_time_threshold,  *)
(* driven by the episode loop of test_ai_score / play_game.                *)
(*                                                                         *)
(* The grid constants H, W and END_TURN keep the names of src/main.rs but  *)
(* are scaled down (30, 30, 100 in the source) so that the reachable       *)
(* states can be enumerated.  Rewards are drawn from 0..MaxPoint (0..9 in  *)
(* the source); RichState is one more initial grid, with a reward of 2.    *)
(* Time budgets are 0 and MaxThreshold milliseconds.                       *)
(***************************************************************************)
EXTENDS Integers, Sequences, FiniteSets, TLC

\* ------------------------------------------------------------------------
\* Program constants (scaled) and model bounds
\* ------------------------------------------------------------------------
H == 2

W == 3

END_TURN == 4

MaxPoint == 1

MaxWidth == 2

MaxDepth == 2

MaxNum == 2

MaxThreshold == 1

\* Option<T>: None is the empty sequence, Some(v) the one-element sequence.
None == <<>>

Some(v) == <<v>>

is_some(o) == o # <<>>

unwrap(o) == o[1]

\* ------------------------------------------------------------------------
\* MazeState
\* ------------------------------------------------------------------------
Actions == 0..3

\* 0: east, 1: west, 2: south, 3: north
dx == [a \in Actions |-> CASE a = 0 -> 1 [] a = 1 -> -1 [] OTHER -> 0]

dy == [a \in Actions |-> CASE a = 2 -> 1 [] a = 3 -> -1 [] OTHER -> 0]

Cells == (0..(H - 1)) \X (0..(W - 1))

Coord(y, x) == [y |-> y, x |-> x]

\* MazeState::new: the agent on any cell, that cell without reward, every
\* other cell with a reward in 0..MaxPoint; turn, scores and tag zero.
InitialStates ==
    { [points |-> p, turn |-> 0, character |-> Coord(c[1], c[2]),
       game_score |-> 0, evaluated_score |-> 0, first_action |-> 0] :
        <<c, p>> \in { cp \in Cells \X [Cells -> 0..MaxPoint] : cp[2][cp[1]] = 0 } }

\* one more state of MazeState::new, with a reward above MaxPoint: the agent
\* in the middle of the top row, 1 on either side of it and 2 below the
\* left one
RichState ==
    [points |-> [c \in Cells |->
                    CASE c = <<0, 0>> -> 1
                      [] c = <<0, 2>> -> 1
                      [] c = <<1, 0>> -> 2
                      [] OTHER -> 0],
     turn |-> 0, character |-> Coord(0, 1),
     game_score |-> 0, evaluated_score |-> 0, first_action |-> 0]

\* mutant: `>` for `==`, the episode is over one turn late
is_doneLate(s) == s.turn > END_TURN

is_done(s) == s.turn = END_TURN

\* mutant: the upper bounds of the grid are not tested
legalMoveNoUpperCheck(s, a) ==
    0 <= s.character.y + dy[a] /\ 0 <= s.character.x + dx[a]

\* mutant: `0 < ty`, `0 < tx` for `0 <= ty`, `0 <= tx`
legalMoveStrictLower(s, a) ==
    LET ty == s.character.y + dy[a]
        tx == s.character.x + dx[a]
    IN  0 < ty /\ ty < H /\ 0 < tx /\ tx < W

legalMove(s, a) ==
    LET ty == s.character.y + dy[a]
        tx == s.character.x + dx[a]
    IN  0 <= ty /\ ty < H /\ 0 <= tx /\ tx < W

\* the actions 0..3 in increasing order, those leaving the grid filtered out
legal_actions(s) == SelectSeq(<<0, 1, 2, 3>>, LAMBDA a : legalMove(s, a))

\* mutant: `game_score = point` for `game_score += point`
advanceScoreOverwrite(s, a) ==
    LET y == s.character.y + dy[a]
        x == s.character.x + dx[a]
        point == s.points[<<y, x>>]
    IN  [s EXCEPT !.character = Coord(y, x),
                  !.game_score = IF point > 0 THEN point ELSE @,
                  !.points = IF point > 0 THEN [@ EXCEPT ![<<y, x>>] = 0] ELSE @,
                  !.turn = @ + 1]

\* mutant: the collected cell is not set to zero
advanceKeepCell(s, a) ==
    LET y == s.character.y + dy[a]
        x == s.character.x + dx[a]
        point == s.points[<<y, x>>]
    IN  [s EXCEPT !.character = Coord(y, x),
                  !.game_score = IF point > 0 THEN @ + point ELSE @,
                  !.turn = @ + 1]

advance(s, a) ==
    LET y == s.character.y + dy[a]
        x == s.character.x + dx[a]
        point == s.points[<<y, x>>]
    IN  [s EXCEPT !.character = Coord(y, x),
                  !.game_score = IF point > 0 THEN @ + point ELSE @,
                  !.points = IF point > 0 THEN [@ EXCEPT ![<<y, x>>] = 0] ELSE @,
                  !.turn = @ + 1]

evaluate_score(s) == [s EXCEPT !.evaluated_score = s.game_score]

\* mutant: `<=` for `<`, the last of the best actions wins
RECURSIVE greedyLoopLastWins(_, _, _, _, _)
greedyLoopLastWins(s, acts, k, highest, best_action) ==
    IF k > Len(acts) THEN best_action
    ELSE LET next_state == evaluate_score(advance(s, acts[k]))
         IN  IF ~is_some(highest) \/ unwrap(highest) <= next_state.evaluated_score
             THEN greedyLoopLastWins(s, acts, k + 1,
                                     Some(next_state.evaluated_score),
                                     Some(acts[k]))
             ELSE greedyLoopLastWins(s, acts, k + 1, highest, best_action)

\* ------------------------------------------------------------------------
\* greedy_action (the free function, lines 189-205)
\* ------------------------------------------------------------------------
RECURSIVE greedyLoop(_, _, _, _, _)
greedyLoop(s, acts, k, highest, best_action) ==
    IF k > Len(acts) THEN best_action
    ELSE LET next_state == evaluate_score(advance(s, acts[k]))
         IN  IF ~is_some(highest) \/ unwrap(highest) < next_state.evaluated_score
             THEN greedyLoop(s, acts, k + 1,
                             Some(next_state.evaluated_score), Some(acts[k]))
             ELSE greedyLoop(s, acts, k + 1, highest, best_action)

\* Some(action), or None where the assertions of greedy_action fail
greedy_action(s) == greedyLoop(s, legal_actions(s), 1, None, None)

\* ------------------------------------------------------------------------
\* std::collections::BinaryHeap<MazeState>, ordered by Ord for MazeState
\* (evaluated_score only).  A heap is the sequence of its backing vector;
\* position p of the vector is index p + 1 of the sequence.
\* ------------------------------------------------------------------------
\* mutant: the order is reversed, the heap keeps the lowest key on top
LeReversed(a, b) == a.evaluated_score >= b.evaluated_score

Le(a, b) == a.evaluated_score <= b.evaluated_score

Swap(data, p, q) == [data EXCEPT ![p + 1] = data[q + 1], ![q + 1] = data[p + 1]]

Lt(a, b) == a.evaluated_score < b.evaluated_score

\* mutant: `<` for `<=`, an element climbs past a parent of equal rank
RECURSIVE sift_upPastEqual(_, _, _)
sift_upPastEqual(data, start, pos) ==
    IF pos > start
    THEN LET parent == (pos - 1) \div 2
         IN  IF Lt(data[pos + 1], data[parent + 1]) THEN data
             ELSE sift_upPastEqual(Swap(data, pos, parent), start, parent)
    ELSE data

RECURSIVE sift_up(_, _, _)
sift_up(data, start, pos) ==
    IF pos > start
    THEN LET parent == (pos - 1) \div 2
         IN  IF Le(data[pos + 1], data[parent + 1]) THEN data
             ELSE sift_up(Swap(data, pos, parent), start, parent)
    ELSE data

push(data, item) == sift_up(Append(data, item), 0, Len(data))

RECURSIVE sift_down_loop(_, _)
sift_down_loop(data, pos) ==
    LET end == Len(data)
        child == 2 * pos + 1
    IN  IF end >= 2 /\ child <= end - 2
        THEN LET c == IF Le(data[child + 1], data[child + 2]) THEN child + 1 ELSE child
             IN  sift_down_loop(Swap(data, pos, c), c)
        ELSE IF child = end - 1 THEN <<Swap(data, pos, child), child>>
        ELSE <<data, pos>>

sift_down_to_bottom(data, pos) ==
    LET r == sift_down_loop(data, pos) IN sift_up(r[1], pos, r[2])

peek(data) == data[1]

\* the heap after pop(); the popped item is peek(data)

pop(data) ==
    LET item == data[Len(data)]
        rest == SubSeq(data, 1, Len(data) - 1)
    IN  IF rest = <<>> THEN rest
        ELSE sift_down_to_bottom([rest EXCEPT ![1] = item], 0)

\* ------------------------------------------------------------------------
\* The expansion of one node, shared by the four engines: one child per
\* legal action, advanced, evaluated, tagged when t = 0, pushed.
\* ------------------------------------------------------------------------
\* mutant: first_action is never written, every child keeps the seed's
childNeverTag(now_state, a, depth) == evaluate_score(advance(now_state, a))

\* mutant: first_action is written at every depth
childAlwaysTag(now_state, a, depth) ==
    [evaluate_score(advance(now_state, a)) EXCEPT !.first_action = a]

child(now_state, a, depth) ==
    LET next_state == evaluate_score(advance(now_state, a))
    IN  IF depth = 0 THEN [next_state EXCEPT !.first_action = a] ELSE next_state

RECURSIVE expandLoop(_, _, _, _, _)
expandLoop(heap, now_state, acts, k, depth) ==
    IF k > Len(acts) THEN heap
    ELSE expandLoop(push(heap, child(now_state, acts[k], depth)),
                    now_state, acts, k + 1, depth)

expand(heap, now_state, depth) ==
    expandLoop(heap, now_state, legal_actions(now_state), 1, depth)

\* ------------------------------------------------------------------------
\* State of one episode of the harness and of the search call in progress
\* ------------------------------------------------------------------------
VARIABLES
    init_state,      \* State::new(seed) of the episode
    state,           \* the episode state of test_ai_score
    policy,          \* the policy the episode loop calls
    beam_width,      \* arguments of the search call
    beam_depth,
    beam_num,
    time_threshold,
    elapsed_msec,    \* time_keeper.start_time.elapsed().as_millis()
    pc,              \* where the episode loop or the search is
    now_beam,        \* locals of the beam searches
    next_beam,
    best_state,
    t,
    i,
    beams,           \* locals of the chokudai searches: beams[t + 1] is frontier t
    round,
    action,          \* the value the policy returned
    aborted,         \* the panic that ended the program, "" while it runs
    late_expansions  \* history: node expansions the time-boxed search in
                     \* progress began after its budget had elapsed

params == <<init_state, policy, beam_width, beam_depth, beam_num, time_threshold>>

beamLocals == <<now_beam, next_beam, best_state>>

chokudaiLocals == <<beams, round>>

vars == <<init_state, state, policy, beam_width, beam_depth, beam_num,
          time_threshold, elapsed_msec, pc, now_beam, next_beam, best_state,
          t, i, beams, round, action, aborted, late_expansions>>

\* TimeKeeper::is_over
is_over == elapsed_msec >= time_threshold

\* the calls the episode loop can make: policy and arguments
Configs ==
    {<<"greedy", 0, 0, 0, 0>>}
    \cup {<<"beam", w, d, 0, 0>> :
            w \in 1..MaxWidth, d \in (0..MaxDepth) \cup {END_TURN}}
    \cup {<<"beam", 5, 10, 0, 0>>}
    \cup {<<"beam_time", w, 0, 0, th>> :
            w \in 1..MaxWidth, th \in {0, MaxThreshold}}
    \cup {<<"chokudai", w, d, n, 0>> :
            w \in 1..MaxWidth, d \in 0..MaxDepth, n \in 1..MaxNum}
    \cup {<<"chokudai_time", w, d, 0, th>> :
            w \in 1..MaxWidth, d \in 0..MaxDepth, th \in {0, MaxThreshold}}

Init ==
    /\ init_state \in InitialStates \cup {RichState}
    /\ state = init_state
    /\ \E c \in Configs :
        /\ policy = c[1]
        /\ beam_width = c[2]
        /\ beam_depth = c[3]
        /\ beam_num = c[4]
        /\ time_threshold = c[5]
    /\ elapsed_msec = 0
    /\ pc = "ask"
    /\ now_beam = <<>>
    /\ next_beam = <<>>
    /\ best_state = None
    /\ t = 0
    /\ i = 0
    /\ beams = <<>>
    /\ round = 0
    /\ action = None
    /\ aborted = ""
    /\ late_expansions = 0

\* the wall clock advances while a time-boxed search runs; past the
\* threshold further milliseconds change nothing is_over reads
Tick ==
    /\ pc \in {"beam_time", "chokudai_time"}
    /\ elapsed_msec < time_threshold
    /\ elapsed_msec' = elapsed_msec + 1
    /\ UNCHANGED <<params, late_expansions, state, pc, beamLocals, t, i,
                   chokudaiLocals,
                   action, aborted>>

Return(a) ==
    /\ pc' = "returned"
    /\ action' = Some(a)
    /\ aborted' = aborted

Panic(msg) ==
    /\ pc' = "panic"
    /\ aborted' = msg
    /\ action' = action

\* ------------------------------------------------------------------------
\* test_ai_score: while !state.is_done() { state.advance(policy(&state)) }
\* ------------------------------------------------------------------------
GreedyPolicy ==
    /\ pc = "ask"
    /\ policy = "greedy"
    /\ LET a == greedy_action(state)
       IN  IF is_some(a) THEN Return(unwrap(a)) ELSE Panic("assert")
    /\ UNCHANGED <<params, late_expansions, state, elapsed_msec, beamLocals,
                   t, i, chokudaiLocals>>

\* advance indexes points[y][x]: an action that leaves the grid panics.
\* The locals of the search call that answered are out of scope by now.
HarnessAdvance ==
    /\ pc = "returned"
    /\ IF legalMove(state, unwrap(action))
       THEN /\ state' = advance(state, unwrap(action))
            /\ pc' = IF is_done(state') THEN "done" ELSE "ask"
            /\ aborted' = aborted
       ELSE /\ state' = state
            /\ pc' = "panic"
            /\ aborted' = "index out of bounds"
    /\ now_beam' = <<>>
    /\ next_beam' = <<>>
    /\ best_state' = None
    /\ t' = 0
    /\ i' = 0
    /\ beams' = <<>>
    /\ round' = 0
    /\ elapsed_msec' = 0
    /\ action' = action
    /\ late_expansions' = 0
    /\ UNCHANGED params

\* ------------------------------------------------------------------------
\* beam_search_action
\* ------------------------------------------------------------------------
BeamStart ==
    /\ pc = "ask"
    /\ policy = "beam"
    /\ now_beam' = push(<<>>, state)
    /\ next_beam' = <<>>
    /\ best_state' = None
    /\ t' = 0
    /\ i' = 0
    /\ IF beam_depth = 0
       THEN Panic("assert best_state.is_some()")
       ELSE pc' = "beam" /\ action' = action /\ aborted' = aborted
    /\ UNCHANGED <<params, late_expansions, state, elapsed_msec,
                   chokudaiLocals>>

\* one turn of `for _ in 0..beam_width`: pop the best state, push its children
BeamExpand ==
    /\ pc = "beam"
    /\ i < beam_width
    /\ now_beam # <<>>
    /\ next_beam' = expand(next_beam, peek(now_beam), t)
    /\ now_beam' = pop(now_beam)
    /\ i' = i + 1
    /\ UNCHANGED <<params, late_expansions, state, elapsed_msec, pc,
                   best_state, t,
                   chokudaiLocals, action, aborted>>

\* after the width loop: the next beam becomes the beam, its best state is
\* remembered, and the search returns on a terminal best state or at depth
\* beam_depth
BeamLevelEnd ==
    /\ pc = "beam"
    /\ (i = beam_width \/ now_beam = <<>>)
    /\ now_beam' = next_beam
    /\ next_beam' = <<>>
    /\ i' = 0
    /\ IF next_beam = <<>>
       THEN /\ Panic("assert !now_beam.is_empty()")
            /\ UNCHANGED <<best_state, t>>
       ELSE /\ best_state' = Some(peek(next_beam))
            /\ IF is_done(peek(next_beam)) \/ t + 1 = beam_depth
               THEN Return(peek(next_beam).first_action) /\ t' = t
               ELSE /\ t' = t + 1
                    /\ UNCHANGED <<pc, action, aborted>>
    /\ UNCHANGED <<params, late_expansions, state, elapsed_msec,
                   chokudaiLocals>>

\* ------------------------------------------------------------------------
\* beam_search_action_with_time_threshold
\* ------------------------------------------------------------------------
BeamTimeStart ==
    /\ pc = "ask"
    /\ policy = "beam_time"
    /\ now_beam' = push(<<>>, state)
    /\ next_beam' = <<>>
    /\ best_state' = None
    /\ t' = 0
    /\ i' = 0
    /\ elapsed_msec' = 0
    /\ pc' = "beam_time"
    /\ late_expansions' = 0
    /\ UNCHANGED <<params, state, chokudaiLocals, action, aborted>>

\* mutant: on expiry the answer is read from what is left of now_beam
BeamTimeExpiredPeeksBeam ==
    /\ pc = "beam_time"
    /\ i < beam_width
    /\ is_over
    /\ IF now_beam # <<>>
       THEN Return(peek(now_beam).first_action)
       ELSE IF is_some(best_state)
       THEN Return(unwrap(best_state).first_action)
       ELSE Panic("unwrap on None")
    /\ UNCHANGED <<params, late_expansions, state, elapsed_msec, beamLocals,
                   t, i, chokudaiLocals>>

\* the poll at the top of a pop slot finds the deadline expired:
\* `return best_state.unwrap().first_action`
BeamTimeExpired ==
    /\ pc = "beam_time"
    /\ i < beam_width
    /\ is_over
    /\ IF is_some(best_state)
       THEN Return(unwrap(best_state).first_action)
       ELSE Panic("unwrap on None")
    /\ UNCHANGED <<params, late_expansions, state, elapsed_msec, beamLocals,
                   t, i, chokudaiLocals>>

BeamTimeExpand ==
    /\ pc = "beam_time"
    /\ i < beam_width
    /\ ~is_over
    /\ now_beam # <<>>
    /\ next_beam' = expand(next_beam, peek(now_beam), t)
    /\ now_beam' = pop(now_beam)
    /\ i' = i + 1
    /\ late_expansions' = late_expansions + (IF is_over THEN 1 ELSE 0)
    /\ UNCHANGED <<params, state, elapsed_msec, pc, best_state, t,
                   chokudaiLocals, action, aborted>>

\* `for t in 0..` has no depth bound: only a terminal best state ends it
BeamTimeLevelEnd ==
    /\ pc = "beam_time"
    /\ (i = beam_width \/ (~is_over /\ now_beam = <<>>))
    /\ now_beam' = next_beam
    /\ next_beam' = <<>>
    /\ i' = 0
    /\ IF next_beam = <<>>
       THEN /\ Panic("assert !now_beam.is_empty()")
            /\ UNCHANGED <<best_state, t>>
       ELSE /\ best_state' = Some(peek(next_beam))
            /\ IF is_done(peek(next_beam))
               THEN Return(peek(next_beam).first_action) /\ t' = t
               ELSE /\ t' = t + 1
                    /\ UNCHANGED <<pc, action, aborted>>
    /\ UNCHANGED <<params, late_expansions, state, elapsed_msec,
                   chokudaiLocals>>

\* ------------------------------------------------------------------------
\* chokudai_search_action
\* ------------------------------------------------------------------------
\* vec![BinaryHeap::new(); beam_depth + 1] with the seed pushed on beams[0]
seededBeams(s, depth) ==
    [k \in 1..(depth + 1) |-> IF k = 1 THEN push(<<>>, s) ELSE <<>>]

\* mutant: the scan runs from frontier 0 up and stops at the first
\* non-empty frontier
RECURSIVE answerScanShallow(_, _)
answerScanShallow(bs, k) ==
    IF k = 0 THEN None
    ELSE IF is_some(answerScanShallow(bs, k - 1))
    THEN answerScanShallow(bs, k - 1)
    ELSE IF bs[k] # <<>> THEN Some(peek(bs[k]).first_action)
    ELSE None

\* the scan `for t in (0..=beam_depth).rev()`: Some(tag of the best state of
\* the deepest non-empty frontier), None where unreachable!() is hit
RECURSIVE answerScan(_, _)
answerScan(bs, k) ==
    IF k = 0 THEN None
    ELSE IF bs[k] # <<>> THEN Some(peek(bs[k]).first_action)
    ELSE answerScan(bs, k - 1)

answer(bs) == answerScan(bs, Len(bs))

ChokudaiReturn ==
    IF is_some(answer(beams))
    THEN Return(unwrap(answer(beams)))
    ELSE Panic("unreachable")

\* mutant: `i <= beam_width`, one pop more than the width
canExpandOneMore ==
    /\ t < beam_depth
    /\ i <= beam_width
    /\ beams[t + 1] # <<>>
    /\ ~is_done(peek(beams[t + 1]))

\* mutant: a terminal state on top of the frontier is popped too
canExpandTerminal ==
    /\ t < beam_depth
    /\ i < beam_width
    /\ beams[t + 1] # <<>>

\* the test that lets one turn of `for i in 0..beam_width` pop frontier t
canExpand ==
    /\ t < beam_depth
    /\ i < beam_width
    /\ beams[t + 1] # <<>>
    /\ ~is_done(peek(beams[t + 1]))

\* mutant: the children go back into the frontier their parent came from
expandedBeamsSameFrontier ==
    [beams EXCEPT ![t + 1] = expand(pop(beams[t + 1]), peek(beams[t + 1]), t)]

expandedBeams ==
    [beams EXCEPT ![t + 1] = pop(beams[t + 1]),
                  ![t + 2] = expand(beams[t + 2], peek(beams[t + 1]), t)]

ChokudaiStart ==
    /\ pc = "ask"
    /\ policy = "chokudai"
    /\ beams' = seededBeams(state, beam_depth)
    /\ round' = 0
    /\ t' = 0
    /\ i' = 0
    /\ pc' = "chokudai"
    /\ UNCHANGED <<params, late_expansions, state, elapsed_msec, beamLocals,
                   action, aborted>>

ChokudaiExpand ==
    /\ pc = "chokudai"
    /\ canExpand
    /\ beams' = expandedBeams
    /\ i' = i + 1
    /\ UNCHANGED <<params, late_expansions, state, elapsed_msec, pc,
                   beamLocals, t, round,
                   action, aborted>>

\* the width loop over frontier t ends (count reached, frontier empty, or a
\* terminal state on top): on to frontier t + 1
ChokudaiNextDepth ==
    /\ pc = "chokudai"
    /\ t < beam_depth
    /\ ~canExpand
    /\ t' = t + 1
    /\ i' = 0
    /\ UNCHANGED <<params, late_expansions, state, elapsed_msec, pc,
                   beamLocals, chokudaiLocals,
                   action, aborted>>

\* the depth loop ends: the next of the beam_num rounds, or the answer
ChokudaiRoundEnd ==
    /\ pc = "chokudai"
    /\ t = beam_depth
    /\ IF round + 1 < beam_num
       THEN /\ round' = round + 1
            /\ t' = 0
            /\ i' = 0
            /\ UNCHANGED <<pc, action, aborted>>
       ELSE /\ ChokudaiReturn
            /\ UNCHANGED <<round, t, i>>
    /\ UNCHANGED <<params, late_expansions, state, elapsed_msec, beamLocals,
                   beams>>

\* ------------------------------------------------------------------------
\* chokudai_search_action_with_time_threshold
\* ------------------------------------------------------------------------
\* mutant: the deadline is polled before the first round
ChokudaiTimeStartPollsFirst ==
    /\ pc = "ask"
    /\ policy = "chokudai_time"
    /\ beams' = seededBeams(state, beam_depth)
    /\ round' = 0
    /\ t' = 0
    /\ i' = 0
    /\ elapsed_msec' = 0
    /\ IF 0 >= time_threshold
       THEN Return(unwrap(answer(seededBeams(state, beam_depth))))
       ELSE pc' = "chokudai_time" /\ action' = action /\ aborted' = aborted
    /\ late_expansions' = 0
    /\ UNCHANGED <<params, state, beamLocals>>

ChokudaiTimeStart ==
    /\ pc = "ask"
    /\ policy = "chokudai_time"
    /\ beams' = seededBeams(state, beam_depth)
    /\ round' = 0
    /\ t' = 0
    /\ i' = 0
    /\ elapsed_msec' = 0
    /\ pc' = "chokudai_time"
    /\ late_expansions' = 0
    /\ UNCHANGED <<params, state, beamLocals, action, aborted>>

ChokudaiTimeExpand ==
    /\ pc = "chokudai_time"
    /\ canExpand
    /\ beams' = expandedBeams
    /\ i' = i + 1
    /\ late_expansions' = late_expansions + (IF is_over THEN 1 ELSE 0)
    /\ UNCHANGED <<params, state, elapsed_msec, pc, beamLocals, t, round,
                   action, aborted>>

ChokudaiTimeNextDepth ==
    /\ pc = "chokudai_time"
    /\ t < beam_depth
    /\ ~canExpand
    /\ t' = t + 1
    /\ i' = 0
    /\ UNCHANGED <<params, late_expansions, state, elapsed_msec, pc,
                   beamLocals, chokudaiLocals,
                   action, aborted>>

\* mutant: the poll after the depth loop asks for a millisecond more
ChokudaiTimeRoundEndStrict ==
    /\ pc = "chokudai_time"
    /\ t = beam_depth
    /\ IF elapsed_msec > time_threshold
       THEN /\ ChokudaiReturn
            /\ UNCHANGED <<t, i>>
       ELSE /\ t' = 0
            /\ i' = 0
            /\ UNCHANGED <<pc, action, aborted>>
    /\ UNCHANGED <<params, late_expansions, state, elapsed_msec, beamLocals,
                   chokudaiLocals>>

\* the deadline is polled once a round, after the depth loop; rounds are
\* not counted (`for _ in 0..`)
ChokudaiTimeRoundEnd ==
    /\ pc = "chokudai_time"
    /\ t = beam_depth
    /\ IF is_over
       THEN /\ ChokudaiReturn
            /\ UNCHANGED <<t, i>>
       ELSE /\ t' = 0
            /\ i' = 0
            /\ UNCHANGED <<pc, action, aborted>>
    /\ UNCHANGED <<params, late_expansions, state, elapsed_msec, beamLocals,
                   chokudaiLocals>>

Next ==
    \/ GreedyPolicy
    \/ HarnessAdvance
    \/ Tick
    \/ BeamStart
    \/ BeamExpand
    \/ BeamLevelEnd
    \/ BeamTimeStart
    \/ BeamTimeExpired
    \/ BeamTimeExpand
    \/ BeamTimeLevelEnd
    \/ ChokudaiStart
    \/ ChokudaiExpand
    \/ ChokudaiNextDepth
    \/ ChokudaiRoundEnd
    \/ ChokudaiTimeStart
    \/ ChokudaiTimeExpand
    \/ ChokudaiTimeNextDepth
    \/ ChokudaiTimeRoundEnd

Spec == Init /\ [][Next]_vars

\* The program is one thread that runs until it returns or panics, so an
\* enabled step is eventually taken; the wall clock keeps advancing, so a
\* budget that has not elapsed eventually does.
FairSpec == Spec /\ WF_vars(Next) /\ WF_vars(Tick)

\* The harness loop driven by the policies without a clock: greedy_action
\* and beam_search_action.
InitBeam ==
    /\ Init
    /\ policy \in {"greedy", "beam"}

NextBeam ==
    \/ GreedyPolicy
    \/ HarnessAdvance
    \/ BeamStart
    \/ BeamExpand
    \/ BeamLevelEnd

SpecBeam == InitBeam /\ [][NextBeam]_vars

\* The harness loop driven by the two Chokudai searches.
InitChokudai ==
    /\ Init
    /\ policy \in {"chokudai", "chokudai_time"}

NextChokudai ==
    \/ HarnessAdvance
    \/ Tick
    \/ ChokudaiStart
    \/ ChokudaiExpand
    \/ ChokudaiNextDepth
    \/ ChokudaiRoundEnd
    \/ ChokudaiTimeStart
    \/ ChokudaiTimeExpand
    \/ ChokudaiTimeNextDepth
    \/ ChokudaiTimeRoundEnd

SpecChokudai == InitChokudai /\ [][NextChokudai]_vars

\* The harness loop driven by the two time-boxed searches.
InitTimed ==
    /\ Init
    /\ policy \in {"beam_time", "chokudai_time"}

NextTimed ==
    \/ HarnessAdvance
    \/ Tick
    \/ BeamTimeStart
    \/ BeamTimeExpired
    \/ BeamTimeExpand
    \/ BeamTimeLevelEnd
    \/ ChokudaiTimeStart
    \/ ChokudaiTimeExpand
    \/ ChokudaiTimeNextDepth
    \/ ChokudaiTimeRoundEnd

SpecTimed == InitTimed /\ [][NextTimed]_vars

\* ------------------------------------------------------------------------
\* Vocabulary of the properties
\* ------------------------------------------------------------------------
Range(seq) == {seq[k] : k \in 1..Len(seq)}

\* every state a search holds: in a frontier, or remembered as best_state
FrontierStates ==
    Range(now_beam) \cup Range(next_beam) \cup Range(best_state)
    \cup UNION {Range(beams[k]) : k \in 1..Len(beams)}

\* P holds of every state a search holds
AllFrontier(P(_)) ==
    /\ \A k \in 1..Len(now_beam) : P(now_beam[k])
    /\ \A k \in 1..Len(next_beam) : P(next_beam[k])
    /\ \A k \in 1..Len(best_state) : P(best_state[k])
    /\ \A j \in 1..Len(beams) : \A k \in 1..Len(beams[j]) : P(beams[j][k])

\* P holds of the episode state and of every state a search holds
AllKnown(P(_)) == P(state) /\ AllFrontier(P)

\* the sum of the rewards on a grid, row by row
RECURSIVE SumFrom(_, _)
SumFrom(p, k) ==
    IF k >= H * W THEN 0
    ELSE p[<<k \div W, k % W>>] + SumFrom(p, k + 1)

GridSum(p) == SumFrom(p, 0)

Opposite(a) == CASE a = 0 -> 1 [] a = 1 -> 0 [] a = 2 -> 3 [] OTHER -> 2

ReturnedLegal == pc = "returned" => legalMove(state, unwrap(action))

\* the episode played with greedy_action from s, n turns on
RECURSIVE greedyEpisode(_, _)
greedyEpisode(s, n) ==
    IF n = 0 THEN s
    ELSE greedyEpisode(advance(s, unwrap(greedy_action(s))), n - 1)

\* ------------------------------------------------------------------------
\* C6: for every state and every action a in legal_actions(state), advance
\* increases turn by exactly one, moves the agent by a's unit vector, adds
\* the destination cell's reward to game_score (which never decreases), sets
\* that cell to zero and leaves every other cell unchanged.
\* ------------------------------------------------------------------------
AdvanceEffect(s) ==
    LET acts == legal_actions(s)
    IN  \A k \in 1..Len(acts) :
            LET a == acts[k]
                n == advance(s, a)
                dest == <<s.character.y + dy[a], s.character.x + dx[a]>>
            IN  /\ n.turn = s.turn + 1
                /\ n.character = Coord(dest[1], dest[2])
                /\ n.game_score = s.game_score + s.points[dest]
                /\ n.game_score >= s.game_score
                /\ n.points[dest] = 0
                /\ \A c \in Cells \ {dest} : n.points[c] = s.points[c]

C6_AdvanceEffect == AllKnown(AdvanceEffect)

\* the episode has advanced onto a cell that held a reward
C6_Witness ==
    /\ state.turn >= 1
    /\ state.game_score > 0
    /\ init_state.points[<<state.character.y, state.character.x>>] > 0
    /\ state.points[<<state.character.y, state.character.x>>] = 0

\* ------------------------------------------------------------------------
\* C7: in every state reached by legal advances from the initial state (the
\* episode state and every state a search holds), game_score plus the sum
\* of the rewards left on the state's grid equals the sum of the rewards of
\* the initial grid: a reward is counted at most once, re-entry included.
\* ------------------------------------------------------------------------
ScoreConserved(s) ==
    s.game_score + GridSum(s.points) = GridSum(init_state.points)

C7_ScoreConservation == AllKnown(ScoreConserved)

\* a search holds a state that stepped onto a rewarded cell, back, and onto
\* that cell again
C7_Witness ==
    \E a \in Range(legal_actions(state)) :
        LET s1 == advance(state, a)
            s3 == advance(advance(s1, Opposite(a)), a)
        IN  /\ s1.game_score > state.game_score
            /\ \E f \in FrontierStates :
                /\ f.turn = s3.turn
                /\ f.character = s3.character
                /\ f.points = s3.points
                /\ f.game_score = s1.game_score

\* ------------------------------------------------------------------------
\* C8: in every state reached by legal advances on a grid with H >= 2 and
\* W >= 2, the agent is inside the grid, and legal_actions is non-empty and
\* holds exactly the moves whose destination cell is inside the grid.
\* ------------------------------------------------------------------------
PositionAndLegalActions(s) ==
    LET acts == legal_actions(s)
    IN  /\ <<s.character.y, s.character.x>> \in Cells
        /\ acts # <<>>
        /\ \A a \in Actions :
            (\E k \in 1..Len(acts) : acts[k] = a)
                <=> (<<s.character.y + dy[a], s.character.x + dx[a]>> \in Cells)

C8_PositionAndLegalActions ==
    (H >= 2 /\ W >= 2) => AllKnown(PositionAndLegalActions)

\* a search holds a state, two or more advances on, in the corner opposite
\* to the one the episode state stands in
C8_Witness ==
    \E f \in FrontierStates :
        /\ f.turn >= state.turn + 2
        /\ f.character.y # state.character.y
        /\ f.character.x # state.character.x
        /\ legal_actions(f) # legal_actions(state)

\* ------------------------------------------------------------------------
\* C1 (as stated): chokudai_search_action, called on a non-terminal state
\* with beam_width >= 1 and beam_num >= 1 and any beam_depth, returns an
\* action that is in legal_actions of the state it was called on.
\* ------------------------------------------------------------------------
C1_AnyDepthLegal ==
    (policy = "chokudai" /\ beam_width >= 1 /\ beam_num >= 1) =>
        /\ aborted # "unreachable"
        /\ ReturnedLegal

\* C1 (amended): the same with beam_depth >= 1; the search then returns an
\* action legal in the state it was called on, and the episode never panics.
C1_ChokudaiLegalAction ==
    (policy = "chokudai" /\ beam_width >= 1 /\ beam_num >= 1 /\ beam_depth >= 1) =>
        /\ aborted = ""
        /\ ReturnedLegal

\* the degenerate one-round, one-level search has answered, in mid-episode,
\* from a state where east (the unset tag) is not legal
C1_Witness ==
    /\ policy = "chokudai"
    /\ beam_num = 1
    /\ beam_depth = 1
    /\ pc = "returned"
    /\ state.turn >= 1
    /\ ~legalMove(state, 0)
    /\ legalMove(state, unwrap(action))

\* ------------------------------------------------------------------------
\* C2: beam_search_action_with_time_threshold, called on a non-terminal
\* state with beam_width >= 1, returns an action legal in that state rather
\* than failing, whenever the deadline expires, a budget of 0 ms included.
\* ------------------------------------------------------------------------
C2_BeamTimeLegalAction ==
    (policy = "beam_time" /\ beam_width >= 1) =>
        /\ aborted = ""
        /\ ReturnedLegal

\* ------------------------------------------------------------------------
\* C3: chokudai_search_action_with_time_threshold, called on a non-terminal
\* state with beam_width >= 1 and beam_depth >= 1, returns an action legal
\* in that state for every time budget, 0 ms included, whatever the number
\* of rounds completed before the deadline.
\* ------------------------------------------------------------------------
C3_ChokudaiTimeLegalAction ==
    (policy = "chokudai_time" /\ beam_width >= 1 /\ beam_depth >= 1) =>
        /\ aborted = ""
        /\ ReturnedLegal

\* a search with a budget of 0 ms has answered, in mid-episode, from a state
\* where east (the unset tag) is not legal
C3_Witness ==
    /\ policy = "chokudai_time"
    /\ time_threshold = 0
    /\ beam_depth >= 1
    /\ pc = "returned"
    /\ state.turn >= 1
    /\ ~legalMove(state, 0)
    /\ legalMove(state, unwrap(action))

\* ------------------------------------------------------------------------
\* C4: beam_search_action, called on a non-terminal state with
\* beam_width >= 1 and beam_depth >= 1, never ends a level with an empty
\* beam (both assertions hold) and returns an action legal in the state it
\* was called on.
\* ------------------------------------------------------------------------
C4_BeamLegalAction ==
    (policy = "beam" /\ beam_width >= 1 /\ beam_depth >= 1) =>
        /\ aborted = ""
        /\ (pc = "beam" /\ i = 0) => now_beam # <<>>
        /\ pc = "returned" => (now_beam # <<>> /\ is_some(best_state))
        /\ ReturnedLegal

\* a search of two or more levels has answered, in mid-episode, from a state
\* where east (the unset tag) is not legal
C4_Witness ==
    /\ policy = "beam"
    /\ pc = "returned"
    /\ t >= 1
    /\ state.turn >= 1
    /\ ~legalMove(state, 0)
    /\ legalMove(state, unwrap(action))

\* ------------------------------------------------------------------------
\* C5: for every initial grid and start position, the episode played with
\* beam_search_action(beam_width = 1, beam_depth = END_TURN) visits the same
\* sequence of agent positions, and ends with the same score, as the
\* episode played with greedy_action.
\* ------------------------------------------------------------------------
C5_BeamWidthOneIsGreedy ==
    (policy = "beam" /\ beam_width = 1 /\ beam_depth = END_TURN) =>
        /\ aborted = ""
        /\ LET g == greedyEpisode(init_state, state.turn)
           IN  /\ state.character = g.character
               /\ state.game_score = g.game_score

\* such an episode has ended, after a first move where east and south were
\* both legal and greedy preferred south
C5_Witness ==
    /\ policy = "beam"
    /\ beam_width = 1
    /\ beam_depth = END_TURN
    /\ pc = "done"
    /\ state.game_score > 0
    /\ legal_actions(init_state) = <<0, 2>>
    /\ greedy_action(init_state) = Some(2)

\* ------------------------------------------------------------------------
\* C9: every state a search creates or holds, started from a non-terminal
\* episode state, has 0 <= turn <= END_TURN: no search applies advance to a
\* terminal state, for any beam_width, beam_depth and beam_num, beam_depth
\* larger than the number of turns left included.
\* ------------------------------------------------------------------------
TurnInRange(s) == 0 <= s.turn /\ s.turn <= END_TURN

C9_TurnInRange ==
    /\ pc = "ask" => ~is_done(state)
    /\ AllKnown(TurnInRange)
    /\ (pc \in {"beam", "beam_time"} /\ now_beam # <<>>) => ~is_done(peek(now_beam))

\* a beam search with more depth than turns left has stopped early on a
\* terminal best state
C9_Witness ==
    /\ policy = "beam"
    /\ pc = "returned"
    /\ state.turn >= 1
    /\ beam_depth > END_TURN - state.turn
    /\ t + 1 < beam_depth
    /\ is_done(unwrap(best_state))

\* ------------------------------------------------------------------------
\* C10: in beam_search_action_with_time_threshold, when the poll reports
\* expiry after at least one level has completed, the returned action is the
\* first-action tag of the highest-ranked state of the most recently
\* completed level; children already inserted into the partially built next
\* level never influence the result.
\* ------------------------------------------------------------------------
C10_Step ==
    pc = "beam_time" =>
        \* a level completes: best_state is a highest-ranked state of it
        /\ t' = t + 1 =>
            /\ now_beam' = next_beam
            /\ best_state' = Some(peek(next_beam))
            /\ \A k \in 1..Len(next_beam) :
                next_beam[k].evaluated_score <= unwrap(best_state').evaluated_score
        \* while the next level is built, best_state stays as it is
        /\ (pc' = "beam_time" /\ t' = t) => best_state' = best_state
        \* expiry: the answer is the tag of best_state
        /\ (pc' = "returned" /\ is_over /\ i < beam_width) =>
            /\ is_some(best_state)
            /\ best_state' = best_state
            /\ action' = Some(unwrap(best_state).first_action)

C10_ExpiryReturnsCompletedLevel == [][C10_Step]_vars

\* the deadline expired in a partially built level: a child is already in
\* next_beam, and the state on top of what is left of now_beam carries
\* another tag than the one returned
C10_Witness ==
    /\ policy = "beam_time"
    /\ pc = "returned"
    /\ is_over
    /\ i >= 1
    /\ i < beam_width
    /\ next_beam # <<>>
    /\ now_beam # <<>>
    /\ peek(now_beam).first_action # unwrap(action)
    /\ unwrap(action) = unwrap(best_state).first_action

\* ------------------------------------------------------------------------
\* C11: overshoot of the time budget
\* ------------------------------------------------------------------------
\* C11 as stated: in both time-boxed searches at most one node expansion
\* begins after the budget has elapsed.
C11_AtMostOneLateExpansion == late_expansions <= 1

\* C11: beam_search_action_with_time_threshold polls the deadline at the top
\* of every pop slot, so at most one expansion follows the expiry;
\* chokudai_search_action_with_time_threshold polls it once a round, so the
\* round in progress at expiry is completed (frontier t of that round gives
\* up at most beam_width states, so at most beam_width * beam_depth
\* expansions follow) and no further round starts.
C11_OvershootPerPoll ==
    /\ policy = "beam_time" => late_expansions <= 1
    /\ pc = "chokudai_time" => late_expansions <= beam_width * t + i
    /\ policy = "chokudai_time" => late_expansions <= beam_width * beam_depth

\* a time-boxed chokudai search has answered after several expansions that
\* began past the deadline
C11_Witness ==
    /\ pc = "returned"
    /\ policy = "chokudai_time"
    /\ time_threshold > 0
    /\ late_expansions >= 2

\* ------------------------------------------------------------------------
\* C12: the ranking key of the states in the frontiers
\* ------------------------------------------------------------------------
KeyIsScore(s) == s.evaluated_score = s.game_score

\* C12: every state in a frontier of a search, the seed cloned from the
\* episode state included, has evaluated_score equal to game_score.
C12_FrontierKeyIsScore == AllFrontier(KeyIsScore)

\* ------------------------------------------------------------------------
\* C13: frontier 0 of the chokudai searches
\* ------------------------------------------------------------------------
inChokudai ==
    /\ policy \in {"chokudai", "chokudai_time"}
    /\ pc \in {"chokudai", "chokudai_time", "returned"}

\* C13 as stated: frontier 0 of a chokudai search holds the seed, and nothing
\* else, from the seeding until the answer has been selected.
C13_SeedStaysInFrontier0 == inChokudai => beams[1] = <<state>>

\* C13: frontier 0 of a chokudai search receives the seed and nothing else;
\* with beam_depth >= 1 the first round removes the seed, so frontier 0 is
\* empty when the answer is selected, and it still holds the seed then only
\* with beam_depth = 0.
C13_SeedLeavesFrontier0 ==
    inChokudai =>
        /\ beams[1] \in {<<>>, <<state>>}
        /\ pc = "returned" => (beams[1] = <<>> <=> beam_depth >= 1)

\* a time-boxed chokudai search has answered from a deeper frontier with
\* frontier 0 empty
C13_Witness ==
    /\ inChokudai
    /\ policy = "chokudai_time"
    /\ pc = "returned"
    /\ beam_depth >= 1
    /\ beams[1] = <<>>

\* ------------------------------------------------------------------------
\* C14: beam search against the greedy policy
\* ------------------------------------------------------------------------
\* the ranking key of the successor greedy_action moves to
greedyKey(s) ==
    evaluate_score(advance(s, unwrap(greedy_action(s)))).evaluated_score

\* C14 as stated: for every initial grid and start position the episode
\* played with beam_search_action of width 5 and depth 10 ends with a score
\* at least that of the episode greedy_action plays from the same initial
\* state.
C14_BeamAtLeastGreedy ==
    (policy = "beam" /\ beam_width = 5 /\ beam_depth = 10 /\ pc = "done") =>
        state.game_score >= greedyEpisode(init_state, END_TURN).game_score

\* C14: every call of beam_search_action answers with the first action of a
\* plan (its final best_state) whose score is at least the score of the
\* successor greedy_action would move to; the episode as a whole can still
\* end below the greedy one.
C14_BeamPlanAtLeastGreedyStep ==
    (policy = "beam" /\ pc = "returned") =>
        unwrap(best_state).evaluated_score >= greedyKey(state)

\* the beam of width 5 and depth 10 has answered with a plan that beats the
\* greedy step
C14_Witness ==
    /\ policy = "beam"
    /\ pc = "returned"
    /\ beam_width = 5
    /\ beam_depth = 10
    /\ unwrap(best_state).evaluated_score > greedyKey(state)

\* ------------------------------------------------------------------------
\* C15: greedy_action
\* ------------------------------------------------------------------------
\* the ranking key of the successor action a leads to
successorKey(s, a) == evaluate_score(advance(s, a)).evaluated_score

GreedyFirstMax(s) ==
    LET acts == legal_actions(s)
        best == greedy_action(s)
    IN  acts # <<>> =>
            /\ is_some(best)
            /\ legalMove(s, unwrap(best))
            /\ \E k \in 1..Len(acts) :
                /\ acts[k] = unwrap(best)
                /\ \A j \in 1..Len(acts) :
                       successorKey(s, acts[j]) <= successorKey(s, acts[k])
                /\ \A j \in 1..(k - 1) :
                       successorKey(s, acts[j]) < successorKey(s, acts[k])

\* C15: for every state with a legal action, greedy_action returns a legal
\* action whose successor has the highest ranking key among the successors
\* of the legal actions, and among several such actions the first in the
\* order of legal_actions (east, west, south, north); the greedy policy
\* hands that action to the episode loop.
C15_GreedyFirstMax ==
    /\ GreedyFirstMax(state)
    /\ (policy = "greedy" /\ pc = "returned") => action = greedy_action(state)

\* the greedy policy has answered east where east and west led to the same
\* positive reward and south to less
C15_Witness ==
    /\ policy = "greedy"
    /\ pc = "returned"
    /\ legal_actions(state) = <<0, 1, 2>>
    /\ successorKey(state, 0) = successorKey(state, 1)
    /\ successorKey(state, 2) < successorKey(state, 0)
    /\ action = Some(0)

\* ------------------------------------------------------------------------
\* C16: the first-action tag
\* ------------------------------------------------------------------------
\* what a sequence of advances determines of a state
core(s) == <<s.turn, s.character, s.game_score, s.points>>

\* the number of moves between two cells
abs(n) == IF n < 0 THEN -n ELSE n

steps(c, d) == abs(c.y - d.y) + abs(c.x - d.x)

\* n legal actions lead from s to f. A path moves one cell per action, and
\* a cell it has stood on holds no reward afterwards.
RECURSIVE Descends(_, _, _)
Descends(s, f, n) ==
    IF n = 0 THEN core(s) = core(f)
    ELSE \E a \in Actions :
            /\ legalMove(s, a)
            /\ LET c == Coord(s.character.y + dy[a], s.character.x + dx[a])
               IN  /\ steps(c, f.character) <= n - 1
                   /\ f.points[<<c.y, c.x>>] = 0
            /\ \E next_state \in {advance(s, a)} : Descends(next_state, f, n - 1)

\* f, held at depth f.turn - state.turn of a search seeded with state, is
\* tagged with a legal action of the seed that starts a path to f
TagOnPath(f) ==
    f.turn > state.turn =>
        /\ legalMove(state, f.first_action)
        /\ Descends(advance(state, f.first_action), f, f.turn - state.turn - 1)

\* C16: in every search engine, at every point of the search, each state
\* held in a frontier at depth >= 1 carries as first-action tag the action
\* applied to the seed on a path that produces it, which is a legal action
\* of the seed: the tag written for a child of the seed reaches its
\* descendants unchanged.
C16_TagIsFirstAction == AllFrontier(TagOnPath)

\* a chokudai search holds, two levels down, a state standing on the seed's
\* cell again and tagged east: the action applied last was west
C16_Witness ==
    /\ pc = "chokudai"
    /\ Len(beams) >= 3
    /\ beams[3] # <<>>
    /\ peek(beams[3]).character = state.character
    /\ peek(beams[3]).first_action = 0

\* ------------------------------------------------------------------------
\* C17: the answer of the chokudai searches
\* ------------------------------------------------------------------------
\* the index in beams of the deepest non-empty frontier
deepest ==
    CHOOSE k \in 1..Len(beams) :
        beams[k] # <<>> /\ \A m \in (k + 1)..Len(beams) : beams[m] = <<>>

\* a is the tag of a state of frontier with the highest ranking key in it
TagOfMax(frontier, a) ==
    \E j \in 1..Len(frontier) :
        /\ frontier[j].first_action = a
        /\ \A m \in 1..Len(frontier) : Le(frontier[m], frontier[j])

\* C17: in both chokudai variants, after the seeding and after every
\* pop/expand step at least one of the beam_depth + 1 frontiers is
\* non-empty, so the scan that selects the answer finds one and
\* unreachable!() is never executed; the tag returned is that of a state
\* with the highest ranking key of the deepest non-empty frontier.
C17_AnswerFromDeepestFrontier ==
    /\ aborted # "unreachable"
    /\ inChokudai =>
        /\ Len(beams) = beam_depth + 1
        /\ \E k \in 1..Len(beams) : beams[k] # <<>>
        /\ pc = "returned" => TagOfMax(beams[deepest], unwrap(action))

\* a chokudai search of depth 2 has answered from frontier 1, which holds
\* states of different keys, because frontier 2 is empty
C17_Witness ==
    /\ policy = "chokudai"
    /\ pc = "returned"
    /\ beam_depth = 2
    /\ beams[3] = <<>>
    /\ \E j \in 1..Len(beams[2]) : Lt(beams[2][j], peek(beams[2]))

\* ------------------------------------------------------------------------
\* C18: one round of a chokudai search
\* ------------------------------------------------------------------------
\* how many times x occurs in seq
Count(seq, x) == Cardinality({k \in 1..Len(seq) : seq[k] = x})

\* a step that takes a state from frontier t: i counts the states taken from
\* frontier t in this round
PopStep ==
    LET removed == peek(beams[t + 1])
        acts == legal_actions(removed)
    IN  /\ t < beam_depth
        /\ i < beam_width
        /\ t' = t
        /\ i' = i + 1
        /\ ~is_done(removed)
        /\ \A m \in 1..Len(beams[t + 1]) : Le(beams[t + 1][m], removed)
        /\ Len(beams'[t + 1]) = Len(beams[t + 1]) - 1
        /\ \A x \in Range(beams[t + 1]) :
               Count(beams'[t + 1], x) =
                   Count(beams[t + 1], x) - (IF x = removed THEN 1 ELSE 0)
        /\ Len(beams'[t + 2]) = Len(beams[t + 2]) + Len(acts)
        /\ \A k \in 1..Len(acts) :
               LET c == evaluate_score(advance(removed, acts[k]))
               IN  \E x \in Range(beams'[t + 2]) :
                       /\ core(x) = core(c)
                       /\ x.evaluated_score = c.evaluated_score
                       /\ Count(beams'[t + 2], x) = Count(beams[t + 2], x) + 1
        /\ \A k \in 1..Len(beams) :
               k \notin {t + 1, t + 2} => beams'[k] = beams[k]

\* a step that takes nothing: the clock ticks, the answer is selected, the
\* next round begins, or the width loop over frontier t ends, also on a
\* terminal state on top, which stays where it is
NoPopStep ==
    /\ beams' = beams
    /\ \/ t' = t /\ i' = i
       \/ t < beam_depth /\ t' = t + 1 /\ i' = 0
       \/ t = beam_depth /\ t' = 0 /\ i' = 0

C18_Step ==
    (pc \in {"chokudai", "chokudai_time"}) =>
        /\ i <= beam_width
        /\ Len(beams'[beam_depth + 1]) >= Len(beams[beam_depth + 1])
        /\ IF beams' # beams THEN PopStep ELSE NoPopStep
        /\ (t < beam_depth /\ beams[t + 1] # <<>> /\ is_done(peek(beams[t + 1])))
               => beams' = beams

\* C18: within one round of a chokudai search, for each depth
\* t < beam_depth at most beam_width states are removed from frontier t;
\* every state removed is non-terminal and has the highest ranking key of
\* frontier t when it is removed; a terminal state on top of a frontier
\* stays in place and ends the expansion of that depth; the children of a
\* state removed from frontier t go into frontier t + 1 and nowhere else;
\* the deepest frontier is never popped.
C18_RoundPopsAndPushes == [][C18_Step]_vars

\* in its second round a chokudai search of width 1 meets a terminal state
\* on top of a frontier it could still pop from, next to a lower-ranked one
C18_Witness ==
    /\ pc = "chokudai"
    /\ round = 1
    /\ t < beam_depth
    /\ i < beam_width
    /\ Len(beams[t + 1]) >= 2
    /\ is_done(peek(beams[t + 1]))

\* ------------------------------------------------------------------------
\* C19: the time-boxed searches return
\* ------------------------------------------------------------------------
inTimedSearch == pc \in {"beam_time", "chokudai_time"}

\* C19: every call of a time-boxed search on a non-terminal state returns
\* an answer: it never ends without one, and
\* beam_search_action_with_time_threshold completes at most END_TURN - turn
\* levels before it does.
C19_TimedSearchReturns ==
    policy \in {"beam_time", "chokudai_time"} =>
        /\ pc # "panic"
        /\ pc = "beam_time" => t < END_TURN - state.turn

\* what holds of the calls instead, under FairSpec: each of them ends, with
\* an answer or with the panic of best_state.unwrap(), and the chokudai one
\* always with an answer
TimedSearchEnds == inTimedSearch ~> pc \in {"returned", "panic"}

ChokudaiTimeReturns == pc = "chokudai_time" ~> pc = "returned"

\* ------------------------------------------------------------------------
\* C20: the episode loop
\* ------------------------------------------------------------------------
\* C20: the episode loop never asks a policy for an action on a terminal
\* state, applies an action only where it is legal (an illegal answer of the
\* policy ends the program instead), and, as long as the policy answers
\* with legal actions, ends after exactly END_TURN advances with
\* turn = END_TURN: turn counts the advances.
C20_EpisodeLoop ==
    /\ state.turn <= END_TURN
    /\ pc = "done" <=> (is_done(state) /\ aborted = "")
    /\ pc \notin {"done", "panic"} => ~is_done(state)
    /\ aborted = "index out of bounds" => ~legalMove(state, unwrap(action))
    /\ Descends(init_state, state, state.turn)

\* an episode of the time-boxed chokudai search has ended with rewards
\* collected
C20_Witness ==
    /\ pc = "done"
    /\ policy = "chokudai_time"
    /\ state.turn = END_TURN
    /\ state.game_score > 0

====
